---- MODULE Spec2Model ----
(***************************************************************************)
(* RedisBoard: a Redis-backed leaderboard (package redisboard).            *)
(*                                                                         *)
(* The Redis server is modelled as two keyed collections: the sorted sets  *)
(* (key -> member -> score) and the hashes (key -> field -> value).  A key *)
(* exists exactly while its collection is non-empty, as in Redis.  Keys    *)
(* are the strings the code builds by concatenation.                       *)
(*                                                                         *)
(* A float64 score is represented by an integer number of 1/Unit parts, so *)
(* that the rounding float64(int(x)) of the integer score policy does      *)
(* something: with Unit = 2 the value 3 stands for 1.5 and rounds to 2     *)
(* (1.0).  Redis adds scores as doubles: a sum is rounded to the nearest   *)
(* value with Mantissa significant bits (ties to even).  A double has 53   *)
(* of them; the integers of TLC are 32 bits wide, so the model's doubles   *)
(* carry fewer and the amounts that exceed them are scaled accordingly.    *)
(***************************************************************************)
EXTENDS Integers, Sequences, FiniteSets, TLC

VARIABLES
    zsets,    \* Redis sorted sets: key -> (member -> score)
    hashes,   \* Redis hashes: key -> (field -> value)
    config,   \* Leaderboard.config after New
    last,     \* the call that completed last (one-at-a-time use): its arguments and error
    prev,     \* the call that completed before it
    pre,      \* the Redis contents just before the last call
    nops,     \* number of calls completed so far (one-at-a-time use)
    procs     \* concurrent callers: client -> its call in flight

vars == <<zsets, hashes, config, last, prev, pre, nops, procs>>

-----------------------------------------------------------------------------
(* Bounds and input sets *)

MaxOps == 3
MaxMock == 11
Mantissa == 24

Unit == 2

\* the smallest amount from which on doubles are 2.0 apart
Big == 2^Mantissa * Unit

UserIDs == {"u1", "u2"}
Entities == {"US", "UK"}
AddScores == {0, 3}
BadScores == {-1}
Increments == {-2, 1, 2}

NoCall == [op |-> "none", id |-> "", entity |-> "", amount |-> 0, err |-> "nil"]

-----------------------------------------------------------------------------
(* Redis data model *)

Drop(f, k) == [x \in DOMAIN f \ {k} |-> f[x]]

\* the members of a sorted set / the fields of a hash; a missing key is empty
Coll(store, key) == IF key \in DOMAIN store THEN store[key] ELSE <<>>

\* write a collection back; Redis deletes a key whose collection became empty
Put(store, key, coll) ==
    IF DOMAIN coll = {} THEN Drop(store, key) ELSE (key :> coll) @@ store

\* faulty variant: ZADD with NX, which never updates a member that exists
ZAddNX(db, key, score, member) ==
    IF member \in DOMAIN Coll(db.zsets, key) THEN db
    ELSE [db EXCEPT !.zsets = Put(@, key, (member :> score) @@ Coll(@, key))]

ZAdd(db, key, score, member) ==
    [db EXCEPT !.zsets = Put(@, key, (member :> score) @@ Coll(@, key))]

\* the double nearest to the exact value x, ties to even (x below 2^(Mantissa+4))
Float64(x) ==
    LET a == IF x < 0 THEN 0 - x ELSE x
    IN  IF a < 2^Mantissa THEN x
        ELSE LET k    == CHOOSE k \in 1..4 : 2^(Mantissa + k - 1) <= a /\ a < 2^(Mantissa + k)
                 ulp  == 2^k
                 lo   == (a \div ulp) * ulp
                 r    == a - lo
                 near == IF 2 * r < ulp THEN lo
                         ELSE IF 2 * r > ulp THEN lo + ulp
                         ELSE IF (lo \div ulp) % 2 = 0 THEN lo ELSE lo + ulp
             IN  IF x < 0 THEN 0 - near ELSE near

\* faulty variant: the increment stored as the score, as ZADD would
ZIncrByOverwrite(db, key, increment, member) ==
    [db EXCEPT !.zsets = Put(@, key, (member :> increment) @@ Coll(@, key))]

ZIncrBy(db, key, increment, member) ==
    LET zs  == Coll(db.zsets, key)
        old == IF member \in DOMAIN zs THEN zs[member] ELSE 0
    IN  [db EXCEPT !.zsets = Put(@, key, (member :> Float64(old + increment)) @@ zs)]

\* faulty variant: the whole sorted set is deleted
ZRemKey(db, key, member) ==
    [db EXCEPT !.zsets = Put(@, key, <<>>)]

ZRem(db, key, member) ==
    [db EXCEPT !.zsets = Put(@, key, Drop(Coll(@, key), member))]

HSet(db, key, field, value) ==
    [db EXCEPT !.hashes = Put(@, key, (field :> value) @@ Coll(@, key))]

HDel(db, key, field) ==
    [db EXCEPT !.hashes = Put(@, key, Drop(Coll(@, key), field))]

\* reads: err = "redis.Nil" and the zero value when the member / field is missing
ZScore(db, key, member) ==
    LET zs == Coll(db.zsets, key)
    IN  IF member \in DOMAIN zs THEN [val |-> zs[member], err |-> "nil"]
        ELSE [val |-> 0, err |-> "redis.Nil"]

HGet(db, key, field) ==
    LET h == Coll(db.hashes, key)
    IN  IF field \in DOMAIN h THEN [val |-> h[field], err |-> "nil"]
        ELSE [val |-> "", err |-> "redis.Nil"]

\* one queued command of a pipeline, applied to the server
Apply(db, c) ==
    CASE c.cmd = "ZADD"    -> ZAdd(db, c.key, c.score, c.member)
      [] c.cmd = "ZINCRBY" -> ZIncrBy(db, c.key, c.score, c.member)
      [] c.cmd = "ZREM"    -> ZRem(db, c.key, c.member)
      [] c.cmd = "HSET"    -> HSet(db, c.key, c.member, c.value)
      [] c.cmd = "HDEL"    -> HDel(db, c.key, c.member)

Cmd(cmd, key, member, score, value) ==
    [cmd |-> cmd, key |-> key, member |-> member, score |-> score, value |-> value]

\* all queued commands of a pipeline, in order, with nothing in between
RECURSIVE Exec(_, _)
Exec(db, cmds) ==
    IF cmds = <<>> THEN db ELSE Exec(Apply(db, Head(cmds)), Tail(cmds))

-----------------------------------------------------------------------------
(* package redisboard *)

\* faulty variant: K is taken as configured, without the default
NewKeepK(cfg) ==
    [Namespace   |-> IF cfg.Namespace = "" THEN "default" ELSE cfg.Namespace,
     K           |-> cfg.K,
     FloatScores |-> cfg.FloatScores]

New(cfg) ==
    [Namespace   |-> IF cfg.Namespace = "" THEN "default" ELSE cfg.Namespace,
     K           |-> IF cfg.K <= 0 THEN 10 ELSE cfg.K,
     FloatScores |-> cfg.FloatScores]

globalKey(cfg) == cfg.Namespace \o ":global"
entitiesKey(cfg) == cfg.Namespace \o ":user:entities"
entityKey(cfg, entity) == cfg.Namespace \o ":entity:" \o entity

\* float64(int(x)): the fractional part is dropped, towards zero
TruncToInt(x) ==
    IF x >= 0 THEN (x \div Unit) * Unit ELSE 0 - (((0 - x) \div Unit) * Unit)

Precision(cfg, x) == IF cfg.FloatScores THEN x ELSE TruncToInt(x)

\* faulty variant: a negative score is let through
AddUserErrIDOnly(user) ==
    IF user.ID = "" THEN "invalid user ID or score" ELSE "nil"

AddUserErr(user) ==
    IF user.ID = "" \/ user.Score < 0 THEN "invalid user ID or score" ELSE "nil"

\* faulty variant: the Directory is written only for a non-empty entity
AddUserPipeSkipEmpty(cfg, user) ==
    LET score == Precision(cfg, user.Score)
    IN  <<Cmd("ZADD", globalKey(cfg), user.ID, score, "")>>
        \o (IF user.Entity # ""
            THEN <<Cmd("HSET", entitiesKey(cfg), user.ID, 0, user.Entity),
                   Cmd("ZADD", entityKey(cfg, user.Entity), user.ID, score, "")>>
            ELSE <<>>)

AddUserPipe(cfg, user) ==
    LET score == Precision(cfg, user.Score)
    IN  <<Cmd("ZADD", globalKey(cfg), user.ID, score, ""),
          Cmd("HSET", entitiesKey(cfg), user.ID, 0, user.Entity)>>
        \o (IF user.Entity # ""
            THEN <<Cmd("ZADD", entityKey(cfg, user.Entity), user.ID, score, "")>>
            ELSE <<>>)

IncrementScoreErr(userID, scoreIncrement) ==
    IF userID = "" \/ scoreIncrement = 0
    THEN "invalid user ID or score increment" ELSE "nil"

\* faulty variant: the increment applied without the precision policy
IncrementScorePipeNoRound(cfg, userID, entity, scoreIncrement) ==
    <<Cmd("ZINCRBY", globalKey(cfg), userID, scoreIncrement, ""),
      Cmd("HSET", entitiesKey(cfg), userID, 0, entity)>>
    \o (IF entity # ""
        THEN <<Cmd("ZINCRBY", entityKey(cfg, entity), userID, scoreIncrement, "")>>
        ELSE <<>>)

\* faulty variant: the Directory is written only for a non-empty entity
IncrementScorePipeKeepEntity(cfg, userID, entity, scoreIncrement) ==
    LET inc == Precision(cfg, scoreIncrement)
    IN  <<Cmd("ZINCRBY", globalKey(cfg), userID, inc, "")>>
        \o (IF entity # ""
            THEN <<Cmd("HSET", entitiesKey(cfg), userID, 0, entity),
                   Cmd("ZINCRBY", entityKey(cfg, entity), userID, inc, "")>>
            ELSE <<>>)

IncrementScorePipe(cfg, userID, entity, scoreIncrement) ==
    LET inc == Precision(cfg, scoreIncrement)
    IN  <<Cmd("ZINCRBY", globalKey(cfg), userID, inc, ""),
          Cmd("HSET", entitiesKey(cfg), userID, 0, entity)>>
        \o (IF entity # ""
            THEN <<Cmd("ZINCRBY", entityKey(cfg, entity), userID, inc, "")>>
            ELSE <<>>)

RemoveUserErr(userID) == IF userID = "" THEN "invalid user ID" ELSE "nil"

\* faulty variant: the Directory entry blanked with HSET instead of deleted
RemoveUserPipeHSet(cfg, userID, entity) ==
    <<Cmd("ZREM", globalKey(cfg), userID, 0, ""),
      Cmd("HSET", entitiesKey(cfg), userID, 0, "")>>
    \o (IF entity # ""
        THEN <<Cmd("ZREM", entityKey(cfg, entity), userID, 0, "")>>
        ELSE <<>>)

\* faulty variant: the user is left in the global sorted set
RemoveUserPipeKeepGlobal(cfg, userID, entity) ==
    <<Cmd("HDEL", entitiesKey(cfg), userID, 0, "")>>
    \o (IF entity # ""
        THEN <<Cmd("ZREM", entityKey(cfg, entity), userID, 0, "")>>
        ELSE <<>>)

\* entity is what HGet returned before the pipeline was built
RemoveUserPipe(cfg, userID, entity) ==
    <<Cmd("ZREM", globalKey(cfg), userID, 0, ""),
      Cmd("HDEL", entitiesKey(cfg), userID, 0, "")>>
    \o (IF entity # ""
        THEN <<Cmd("ZREM", entityKey(cfg, entity), userID, 0, "")>>
        ELSE <<>>)

UpdateEntityArgErr(userID, newEntity) ==
    IF userID = "" THEN "invalid user ID"
    ELSE IF newEntity = "" THEN "invalid new entity"
    ELSE "nil"

\* faulty variant: a user without a global score is not reported
UpdateEntityReadErrNone(scoreCmd) == "nil"

\* scoreCmd and entityCmd are the results of the read pipeline
UpdateEntityReadErr(scoreCmd) ==
    IF scoreCmd.err = "redis.Nil" THEN "user not found" ELSE "nil"

\* faulty variant: the user is never removed from the old entity's sorted set
UpdateEntityPipeKeepOld(cfg, userID, newEntity, oldEntity, readScore) ==
    <<Cmd("HSET", entitiesKey(cfg), userID, 0, newEntity),
      Cmd("ZADD", entityKey(cfg, newEntity), userID, Precision(cfg, readScore), "")>>

UpdateEntityPipe(cfg, userID, newEntity, oldEntity, readScore) ==
    LET score == Precision(cfg, readScore)
    IN  <<Cmd("HSET", entitiesKey(cfg), userID, 0, newEntity),
          Cmd("ZADD", entityKey(cfg, newEntity), userID, score, "")>>
        \o (IF oldEntity # "" /\ oldEntity # newEntity
            THEN <<Cmd("ZREM", entityKey(cfg, oldEntity), userID, 0, "")>>
            ELSE <<>>)

\* Redis orders a sorted set by score and, among equal scores, by member
\* (lexicographically); LexOrder lists the members used here in that order
LexOrder ==
    <<"ghost", "u1", "u2", "user0", "user1", "user10", "user11", "user12",
      "user2", "user3", "user4", "user5", "user6", "user7", "user8", "user9">>
LexIndex(m) == CHOOSE i \in 1..Len(LexOrder) : LexOrder[i] = m

\* faulty variant: ZRANK, the position in ascending order
ZRank(db, key, member) ==
    LET zs == Coll(db.zsets, key)
    IN  IF member \notin DOMAIN zs THEN [val |-> 0, err |-> "redis.Nil"]
        ELSE [val |-> Cardinality({m \in DOMAIN zs :
                         \/ zs[m] < zs[member]
                         \/ zs[m] = zs[member] /\ LexIndex(m) < LexIndex(member)}),
              err |-> "nil"]

\* ZREVRANK: the number of members that sort after `member`, redis.Nil if absent
ZRevRank(db, key, member) ==
    LET zs == Coll(db.zsets, key)
    IN  IF member \notin DOMAIN zs THEN [val |-> 0, err |-> "redis.Nil"]
        ELSE [val |-> Cardinality({m \in DOMAIN zs :
                         \/ zs[m] > zs[member]
                         \/ zs[m] = zs[member] /\ LexIndex(m) > LexIndex(member)}),
              err |-> "nil"]

\* faulty variant: a missing user is reported with score 0 and no error
GetUserScoreZero(db, cfg, userID) ==
    [val |-> ZScore(db, globalKey(cfg), userID).val, err |-> "nil"]

GetUserScore(db, cfg, userID) ==
    LET r == ZScore(db, globalKey(cfg), userID)
    IN  IF r.err = "redis.Nil" THEN [val |-> 0, err |-> "user not found"]
        ELSE [val |-> r.val, err |-> "nil"]

GetUserEntity(db, cfg, userID) ==
    [val |-> HGet(db, entitiesKey(cfg), userID).val, err |-> "nil"]

\* faulty variant: a user missing from its entity's sorted set is not told
\* apart, the zero rank of the empty reply is returned
GetRankEntityNoNil(db, cfg, userID) ==
    LET e == HGet(db, entitiesKey(cfg), userID)
    IN  IF e.err = "redis.Nil" \/ e.val = "" THEN [val |-> -1, err |-> "nil"]
        ELSE [val |-> ZRevRank(db, entityKey(cfg, e.val), userID).val, err |-> "nil"]

GetRankEntity(db, cfg, userID) ==
    LET e == HGet(db, entitiesKey(cfg), userID)
    IN  IF e.err = "redis.Nil" \/ e.val = "" THEN [val |-> -1, err |-> "nil"]
        ELSE LET r == ZRevRank(db, entityKey(cfg, e.val), userID)
             IN  IF r.err = "redis.Nil" THEN [val |-> -1, err |-> "nil"]
                 ELSE [val |-> r.val, err |-> "nil"]

\* ZREVRANGE key start stop WITHSCORES: the members at positions start..stop of
\* the descending order (negative indexes count from the end, the range is
\* clipped to the set), each with its score
ZRevRangeWithScores(db, key, start, stop) ==
    LET zs    == Coll(db.zsets, key)
        n     == Cardinality(DOMAIN zs)
        from  == IF start >= 0 THEN start ELSE IF start + n < 0 THEN 0 ELSE start + n
        upto  == IF stop < 0 THEN stop + n ELSE stop
        to    == IF upto > n - 1 THEN n - 1 ELSE upto
        rank  == [m \in DOMAIN zs |-> ZRevRank(db, key, m).val]
        at(i) == CHOOSE m \in DOMAIN zs : rank[m] = i
    IN  IF from > to THEN <<>>
        ELSE [i \in 1..(to - from + 1) |->
                 LET m == at(from + i - 1) IN [Member |-> m, Score |-> zs[m]]]

\* the []User built from a reply, each Entity read from the Directory
UsersWithDirectoryEntity(db, cfg, members) ==
    [i \in 1..Len(members) |->
        [ID     |-> members[i].Member,
         Entity |-> HGet(db, entitiesKey(cfg), members[i].Member).val,
         Score  |-> members[i].Score]]

\* the []User built from a reply, each Entity the entity that was asked for
UsersOfEntity(members, entity) ==
    [i \in 1..Len(members) |->
        [ID |-> members[i].Member, Entity |-> entity, Score |-> members[i].Score]]

GetTopKGlobal(db, cfg) ==
    LET members == ZRevRangeWithScores(db, globalKey(cfg), 0, cfg.K - 1)
    IN  IF Len(members) = 0
        THEN [val |-> <<>>, err |-> "no users in global leaderboard"]
        ELSE [val |-> UsersWithDirectoryEntity(db, cfg, members), err |-> "nil"]

GetTopKEntity(db, cfg, entity) ==
    LET members == ZRevRangeWithScores(db, entityKey(cfg, entity), 0, cfg.K - 1)
    IN  IF Len(members) = 0
        THEN [val |-> <<>>, err |-> "no users in entity"]
        ELSE [val |-> UsersOfEntity(members, entity), err |-> "nil"]

GetRankGlobal(db, cfg, userID) ==
    LET r == ZRevRank(db, globalKey(cfg), userID)
    IN  IF r.err = "redis.Nil" THEN [val |-> -1, err |-> "nil"]
        ELSE [val |-> r.val, err |-> "nil"]

\* faulty variant: redis.Nil is not told apart, the zero rank of the empty
\* reply is returned
GetUserLeaderboardDataNoNil(db, cfg, userID) ==
    LET Entity == HGet(db, entitiesKey(cfg), userID).val
    IN  [val |->
            [UserID     |-> userID,
             Score      |-> ZScore(db, globalKey(cfg), userID).val,
             Entity     |-> Entity,
             GlobalRank |-> ZRevRank(db, globalKey(cfg), userID).val,
             EntityRank |-> IF Entity = "" THEN -1
                            ELSE ZRevRank(db, entityKey(cfg, Entity), userID).val,
             TopKGlobal |-> UsersWithDirectoryEntity(db, cfg,
                                ZRevRangeWithScores(db, globalKey(cfg), 0, cfg.K - 1)),
             TopKEntity |-> IF Entity = "" THEN <<>>
                            ELSE UsersOfEntity(
                                ZRevRangeWithScores(db, entityKey(cfg, Entity), 0, cfg.K - 1),
                                Entity)],
         err |-> "nil"]

\* all round trips of the call answered from the same contents db
GetUserLeaderboardData(db, cfg, userID) ==
    LET globalRankCmd == ZRevRank(db, globalKey(cfg), userID)
        entityCmd     == HGet(db, entitiesKey(cfg), userID)
        scoreCmd      == ZScore(db, globalKey(cfg), userID)
        topKGlobalCmd == ZRevRangeWithScores(db, globalKey(cfg), 0, cfg.K - 1)
        Entity        == entityCmd.val
        entityRankCmd == ZRevRank(db, entityKey(cfg, Entity), userID)
        topKEntityCmd == ZRevRangeWithScores(db, entityKey(cfg, Entity), 0, cfg.K - 1)
    IN  [val |->
            [UserID     |-> userID,
             Score      |-> IF scoreCmd.err = "redis.Nil" THEN 0 ELSE scoreCmd.val,
             Entity     |-> Entity,
             GlobalRank |-> IF globalRankCmd.err = "redis.Nil" THEN -1
                            ELSE globalRankCmd.val,
             EntityRank |-> IF Entity = "" \/ entityRankCmd.err = "redis.Nil" THEN -1
                            ELSE entityRankCmd.val,
             TopKGlobal |-> UsersWithDirectoryEntity(db, cfg, topKGlobalCmd),
             TopKEntity |-> IF Entity = "" THEN <<>>
                            ELSE UsersOfEntity(topKEntityCmd, Entity)],
         err |-> "nil"]

-----------------------------------------------------------------------------
(* Calls made one at a time: each call runs to completion before the next *)

DB == [zsets |-> zsets, hashes |-> hashes]

Done(call, db) ==
    /\ zsets' = db.zsets
    /\ hashes' = db.hashes
    /\ last' = call
    /\ prev' = last
    /\ pre' = DB
    /\ nops' = nops + 1
    /\ UNCHANGED <<config, procs>>

AddUser(user) ==
    /\ nops < MaxOps
    /\ LET err == AddUserErr(user)
       IN  Done([op |-> "AddUser", id |-> user.ID, entity |-> user.Entity,
                 amount |-> user.Score, err |-> err],
                IF err = "nil" THEN Exec(DB, AddUserPipe(config, user)) ELSE DB)

IncrementScore(userID, entity, scoreIncrement) ==
    /\ nops < MaxOps
    /\ LET err == IncrementScoreErr(userID, scoreIncrement)
       IN  Done([op |-> "IncrementScore", id |-> userID, entity |-> entity,
                 amount |-> scoreIncrement, err |-> err],
                IF err = "nil"
                THEN Exec(DB, IncrementScorePipe(config, userID, entity, scoreIncrement))
                ELSE DB)

RemoveUser(userID) ==
    /\ nops < MaxOps
    /\ LET err == RemoveUserErr(userID)
           entity == HGet(DB, entitiesKey(config), userID).val
       IN  Done([op |-> "RemoveUser", id |-> userID, entity |-> "",
                 amount |-> 0, err |-> err],
                IF err = "nil" THEN Exec(DB, RemoveUserPipe(config, userID, entity)) ELSE DB)

UpdateEntityByUserID(userID, newEntity) ==
    /\ nops < MaxOps
    /\ LET argErr    == UpdateEntityArgErr(userID, newEntity)
           scoreCmd  == ZScore(DB, globalKey(config), userID)
           entityCmd == HGet(DB, entitiesKey(config), userID)
           err       == IF argErr # "nil" THEN argErr ELSE UpdateEntityReadErr(scoreCmd)
       IN  Done([op |-> "UpdateEntityByUserID", id |-> userID, entity |-> newEntity,
                 amount |-> 0, err |-> err],
                IF err = "nil"
                THEN Exec(DB, UpdateEntityPipe(config, userID, newEntity,
                                               entityCmd.val, scoreCmd.val))
                ELSE DB)

Configs == {[Namespace |-> "game1", K |-> 2, FloatScores |-> f] : f \in BOOLEAN}

Init ==
    /\ zsets = <<>>
    /\ hashes = <<>>
    /\ \E cfg \in Configs : config = New(cfg)
    /\ last = NoCall
    /\ prev = NoCall
    /\ pre = [zsets |-> <<>>, hashes |-> <<>>]
    /\ nops = 0
    /\ procs = <<>>

Next ==
    \/ \E id \in UserIDs, e \in Entities \cup {""}, s \in AddScores :
          AddUser([ID |-> id, Entity |-> e, Score |-> s])
    \/ \E id \in UserIDs \cup {""}, s \in BadScores \cup {0} :
          /\ (id = "" \/ s < 0)
          /\ AddUser([ID |-> id, Entity |-> "US", Score |-> s])
    \/ \E id \in UserIDs, e \in Entities \cup {""}, d \in Increments :
          IncrementScore(id, e, d)
    \/ \E id \in UserIDs \cup {""}, d \in {0, 1} :
          /\ (id = "" \/ d = 0)
          /\ IncrementScore(id, "US", d)
    \/ \E id \in UserIDs \cup {""} : RemoveUser(id)
    \/ \E id \in UserIDs \cup {""}, e \in Entities \cup {""} :
          UpdateEntityByUserID(id, e)

Spec == Init /\ [][Next]_vars

-----------------------------------------------------------------------------
(* The server's increment and decrement routes, with amounts up to Big *)

\* the Redis contents after Server.DecrementScore on contents db
DecrementScoreOn(db, cfg, userID, entity, score) ==
    IF IncrementScoreErr(userID, 0 - score) = "nil"
    THEN Exec(db, IncrementScorePipe(cfg, userID, entity, 0 - score))
    ELSE db

\* Server.DecrementScore: s.lb.IncrementScore(userID, entity, -score)
DecrementScore(userID, entity, score) ==
    /\ nops < MaxOps
    /\ Done([op |-> "IncrementScore", id |-> userID, entity |-> entity,
             amount |-> 0 - score, err |-> IncrementScoreErr(userID, 0 - score)],
            DecrementScoreOn(DB, config, userID, entity, score))

AdjustIDs == {"u1"}
AdjustAmounts == {1, 3, Big}

NextAdjust ==
    \/ \E id \in AdjustIDs, e \in Entities \cup {""}, s \in AddScores :
          AddUser([ID |-> id, Entity |-> e, Score |-> s])
    \/ \E id \in AdjustIDs, e \in Entities \cup {""}, d \in AdjustAmounts :
          IncrementScore(id, e, d)
    \/ \E id \in AdjustIDs, e \in Entities \cup {""}, d \in AdjustAmounts :
          DecrementScore(id, e, d)

SpecAdjust == Init /\ [][NextAdjust]_vars

-----------------------------------------------------------------------------
(* Concurrent callers.  client.Pipeline() is the plain (non-MULTI/EXEC)    *)
(* pipeline: Exec sends the queued commands in one batch and the server    *)
(* runs them in order, but commands of other connections may run between   *)
(* them.  Each caller makes one call; every server command is one step.    *)

Clients == {"c1", "c2"}
IncrClients == {"c1", "c2", "c3"}
ConcIDs == {"u1"}
ConcScores == {2}

Idle ==
    [pc |-> "idle", op |-> "none", id |-> "", entity |-> "", amount |-> 0,
     batch |-> <<>>, pending |-> <<>>,
     scoreCmd |-> [val |-> 0, err |-> "nil"], entityCmd |-> [val |-> "", err |-> "nil"],
     err |-> "nil"]

\* the caller's function returned err
Return(p, err) == [p EXCEPT !.pc = "done", !.err = err]

\* the caller built a pipeline and calls pipe.Exec
Submit(p, cmds) == [p EXCEPT !.pc = "write", !.batch = cmds, !.pending = cmds]

Begin(c, op, id, entity, amount) ==
    [procs[c] EXCEPT !.op = op, !.id = id, !.entity = entity, !.amount = amount]

ConcFrame == UNCHANGED <<config, last, prev, pre, nops>>

AddUserCall(c, user) ==
    /\ procs[c].pc = "idle"
    /\ LET p   == Begin(c, "AddUser", user.ID, user.Entity, user.Score)
           err == AddUserErr(user)
       IN  procs' = [procs EXCEPT ![c] =
                        IF err # "nil" THEN Return(p, err)
                        ELSE Submit(p, AddUserPipe(config, user))]
    /\ UNCHANGED <<zsets, hashes>>
    /\ ConcFrame

IncrementScoreCall(c, userID, entity, scoreIncrement) ==
    /\ procs[c].pc = "idle"
    /\ LET p   == Begin(c, "IncrementScore", userID, entity, scoreIncrement)
           err == IncrementScoreErr(userID, scoreIncrement)
       IN  procs' = [procs EXCEPT ![c] =
                        IF err # "nil" THEN Return(p, err)
                        ELSE Submit(p, IncrementScorePipe(config, userID, entity,
                                                          scoreIncrement))]
    /\ UNCHANGED <<zsets, hashes>>
    /\ ConcFrame

RemoveUserCall(c, userID) ==
    /\ procs[c].pc = "idle"
    /\ LET p   == Begin(c, "RemoveUser", userID, "", 0)
           err == RemoveUserErr(userID)
       IN  procs' = [procs EXCEPT ![c] =
                        IF err # "nil" THEN Return(p, err) ELSE [p EXCEPT !.pc = "hget"]]
    /\ UNCHANGED <<zsets, hashes>>
    /\ ConcFrame

\* lb.client.HGet(...).Result() of RemoveUser, then the pipeline is built
RemoveUserHGet(c) ==
    /\ procs[c].pc = "hget"
    /\ procs[c].op = "RemoveUser"
    /\ LET entityCmd == HGet(DB, entitiesKey(config), procs[c].id)
       IN  procs' = [procs EXCEPT ![c] =
                        Submit([@ EXCEPT !.entityCmd = entityCmd],
                               RemoveUserPipe(config, procs[c].id, entityCmd.val))]
    /\ UNCHANGED <<zsets, hashes>>
    /\ ConcFrame

UpdateEntityCall(c, userID, newEntity) ==
    /\ procs[c].pc = "idle"
    /\ LET p   == Begin(c, "UpdateEntityByUserID", userID, newEntity, 0)
           err == UpdateEntityArgErr(userID, newEntity)
       IN  procs' = [procs EXCEPT ![c] =
                        IF err # "nil" THEN Return(p, err) ELSE [p EXCEPT !.pc = "zscore"]]
    /\ UNCHANGED <<zsets, hashes>>
    /\ ConcFrame

\* first command of UpdateEntityByUserID's read pipeline
UpdateEntityZScore(c) ==
    /\ procs[c].pc = "zscore"
    /\ procs' = [procs EXCEPT ![c] =
                    [@ EXCEPT !.pc = "hget",
                              !.scoreCmd = ZScore(DB, globalKey(config), procs[c].id)]]
    /\ UNCHANGED <<zsets, hashes>>
    /\ ConcFrame

\* second command of the read pipeline, then the checks and the write pipeline
UpdateEntityHGet(c) ==
    /\ procs[c].pc = "hget"
    /\ procs[c].op = "UpdateEntityByUserID"
    /\ LET entityCmd == HGet(DB, entitiesKey(config), procs[c].id)
           p   == [procs[c] EXCEPT !.entityCmd = entityCmd]
           err == UpdateEntityReadErr(p.scoreCmd)
       IN  procs' = [procs EXCEPT ![c] =
                        IF err # "nil" THEN Return(p, err)
                        ELSE Submit(p, UpdateEntityPipe(config, p.id, p.entity,
                                                        entityCmd.val, p.scoreCmd.val))]
    /\ UNCHANGED <<zsets, hashes>>
    /\ ConcFrame

\* the server runs the next queued command of c's pipeline; after the last one
\* pipe.Exec returns and the call returns nil
PipeExecStep(c) ==
    /\ procs[c].pc = "write"
    /\ procs[c].pending # <<>>
    /\ LET db   == Apply(DB, Head(procs[c].pending))
           rest == Tail(procs[c].pending)
       IN  /\ zsets' = db.zsets
           /\ hashes' = db.hashes
           /\ procs' = [procs EXCEPT ![c] =
                           IF rest = <<>> THEN Return([@ EXCEPT !.pending = rest], "nil")
                           ELSE [@ EXCEPT !.pending = rest]]
    /\ ConcFrame

\* the server state when the callers start: empty, or holding one added user
Seeds(cfg) ==
    {<<>>} \cup {AddUserPipe(cfg, [ID |-> id, Entity |-> e, Score |-> s]) :
                    id \in ConcIDs, e \in Entities \cup {""}, s \in ConcScores}

InitWith(clients) ==
    /\ \E cfg \in Configs : config = New(cfg)
    /\ \E seed \in Seeds(config) :
          LET db == Exec([zsets |-> <<>>, hashes |-> <<>>], seed)
          IN  /\ zsets = db.zsets
              /\ hashes = db.hashes
              /\ pre = db
    /\ last = NoCall
    /\ prev = NoCall
    /\ nops = 0
    /\ procs = [c \in clients |-> Idle]

InitConc == InitWith(Clients)

NextConc ==
    \/ \E c \in Clients, id \in ConcIDs, e \in Entities \cup {""}, s \in ConcScores :
          AddUserCall(c, [ID |-> id, Entity |-> e, Score |-> s])
    \/ \E c \in Clients, id \in ConcIDs, e \in Entities \cup {""}, d \in Increments :
          IncrementScoreCall(c, id, e, d)
    \/ \E c \in Clients, id \in ConcIDs : RemoveUserCall(c, id)
    \/ \E c \in Clients : RemoveUserHGet(c)
    \/ \E c \in Clients, id \in ConcIDs, e \in Entities : UpdateEntityCall(c, id, e)
    \/ \E c \in Clients : UpdateEntityZScore(c)
    \/ \E c \in Clients : UpdateEntityHGet(c)
    \/ \E c \in Clients : PipeExecStep(c)

SpecConc == InitConc /\ [][NextConc]_vars

\* several callers that only increment the score of one user
InitIncr == InitWith(IncrClients)

NextIncr ==
    \/ \E c \in IncrClients, id \in ConcIDs, e \in Entities \cup {""}, d \in Increments :
          IncrementScoreCall(c, id, e, d)
    \/ \E c \in IncrClients : PipeExecStep(c)

SpecIncr == InitIncr /\ [][NextIncr]_vars

-----------------------------------------------------------------------------
(* Queries on a populated leaderboard: the server adds mock users user0,   *)
(* user1, ... when it starts, then calls are made one at a time            *)

\* how many mock users were added: none, a few, more than the default K
MockCounts == {0, 2, MaxMock}

\* the score and entity are random in the server; here user i gets i.0 and
\* the entities alternate
MockUser(i) ==
    [ID     |-> "user" \o ToString(i),
     Entity |-> IF i % 2 = 0 THEN "US" ELSE "UK",
     Score  |-> i * Unit]

MockIDs == {MockUser(i).ID : i \in 0..(MaxMock - 1)}

RECURSIVE MockPipe(_, _)
MockPipe(cfg, n) ==
    IF n = 0 THEN <<>> ELSE MockPipe(cfg, n - 1) \o AddUserPipe(cfg, MockUser(n - 1))

QueryConfigs == {[Namespace |-> "game1", K |-> k, FloatScores |-> TRUE] : k \in {0, 2}}

InitQuery ==
    \E cfg \in QueryConfigs, n \in MockCounts :
        LET db == Exec([zsets |-> <<>>, hashes |-> <<>>], MockPipe(New(cfg), n))
        IN  /\ config = New(cfg)
            /\ zsets = db.zsets
            /\ hashes = db.hashes
            /\ pre = db
            /\ last = NoCall
            /\ prev = NoCall
            /\ nops = 0
            /\ procs = <<>>

NextQuery ==
    \/ \E id \in UserIDs, e \in Entities \cup {""}, s \in AddScores :
          AddUser([ID |-> id, Entity |-> e, Score |-> s])
    \/ \E id \in UserIDs : RemoveUser(id)
    \/ \E id \in UserIDs, e \in Entities : UpdateEntityByUserID(id, e)

SpecQuery == InitQuery /\ [][NextQuery]_vars

-----------------------------------------------------------------------------
(* Concurrent callers on a populated leaderboard: the mock users of the    *)
(* server, a user that has or has not been added, and one call per client  *)

InitRanked ==
    /\ \E cfg \in Configs : config = New(cfg)
    /\ \E n \in MockCounts, seed \in Seeds(config) :
          LET db == Exec([zsets |-> <<>>, hashes |-> <<>>], MockPipe(config, n) \o seed)
          IN  /\ zsets = db.zsets
              /\ hashes = db.hashes
              /\ pre = db
    /\ last = NoCall
    /\ prev = NoCall
    /\ nops = 0
    /\ procs = [c \in Clients |-> Idle]

SpecRanked == InitRanked /\ [][NextConc]_vars

-----------------------------------------------------------------------------
(* GetUserLeaderboardData called while UpdateEntityByUserID calls are in   *)
(* flight.  The call makes up to three pipelined round trips; every server *)
(* command of them is one step.                                            *)

Reader == "r1"
Writers == {"c1"}

\* sent: the keys the commands of the entity round trip were sent to;
\* seen: the contents of the server at the commands answered so far
ProfileIdle ==
    [pc |-> "idle", op |-> "none", id |-> "", err |-> "nil",
     globalRankCmd |-> [val |-> 0, err |-> "nil"],
     entityCmd     |-> [val |-> "", err |-> "nil"],
     scoreCmd      |-> [val |-> 0, err |-> "nil"],
     topKGlobalCmd |-> <<>>,
     members       |-> <<>>,
     TopKGlobal    |-> <<>>,
     sent          |-> <<>>,
     seen          |-> {},
     entityRankCmd |-> [val |-> 0, err |-> "nil"],
     topKEntityCmd |-> <<>>]

\* the LeaderboardData the call returns, from the replies it collected
ProfileData(p) ==
    [UserID     |-> p.id,
     Score      |-> IF p.scoreCmd.err = "redis.Nil" THEN 0 ELSE p.scoreCmd.val,
     Entity     |-> p.entityCmd.val,
     GlobalRank |-> IF p.globalRankCmd.err = "redis.Nil" THEN -1 ELSE p.globalRankCmd.val,
     EntityRank |-> IF p.entityCmd.val = "" \/ p.entityRankCmd.err = "redis.Nil" THEN -1
                    ELSE p.entityRankCmd.val,
     TopKGlobal |-> p.TopKGlobal,
     TopKEntity |-> IF p.entityCmd.val = "" THEN <<>>
                    ELSE UsersOfEntity(p.topKEntityCmd, p.entityCmd.val)]

ProfileCall(c, userID) ==
    /\ procs[c].pc = "idle"
    /\ procs' = [procs EXCEPT ![c] =
                    [@ EXCEPT !.pc = "rank", !.op = "GetUserLeaderboardData",
                              !.id = userID]]
    /\ UNCHANGED <<zsets, hashes>>
    /\ ConcFrame

\* first round trip: ZRevRank, HGet, ZScore, ZRevRangeWithScores on the global keys
ProfileZRevRank(c) ==
    /\ procs[c].pc = "rank"
    /\ procs' = [procs EXCEPT ![c] =
                    [@ EXCEPT !.pc = "entity", !.seen = @ \cup {DB},
                              !.globalRankCmd = ZRevRank(DB, globalKey(config), procs[c].id)]]
    /\ UNCHANGED <<zsets, hashes>>
    /\ ConcFrame

ProfileHGet(c) ==
    /\ procs[c].pc = "entity"
    /\ procs' = [procs EXCEPT ![c] =
                    [@ EXCEPT !.pc = "score", !.seen = @ \cup {DB},
                              !.entityCmd = HGet(DB, entitiesKey(config), procs[c].id)]]
    /\ UNCHANGED <<zsets, hashes>>
    /\ ConcFrame

ProfileZScore(c) ==
    /\ procs[c].pc = "score"
    /\ procs' = [procs EXCEPT ![c] =
                    [@ EXCEPT !.pc = "range", !.seen = @ \cup {DB},
                              !.scoreCmd = ZScore(DB, globalKey(config), procs[c].id)]]
    /\ UNCHANGED <<zsets, hashes>>
    /\ ConcFrame

\* after the global part: the entity round trip only if data.Entity != ""
ProfileAfterGlobal(p) ==
    IF p.entityCmd.val # "" THEN [p EXCEPT !.pc = "entityrank"] ELSE Return(p, "nil")

ProfileZRevRange(c) ==
    /\ procs[c].pc = "range"
    /\ LET reply == ZRevRangeWithScores(DB, globalKey(config), 0, config.K - 1)
           p     == [procs[c] EXCEPT !.topKGlobalCmd = reply, !.members = reply,
                                     !.seen = @ \cup {DB}]
       IN  procs' = [procs EXCEPT ![c] =
                        IF reply = <<>> THEN ProfileAfterGlobal(p)
                        ELSE [p EXCEPT !.pc = "entities"]]
    /\ UNCHANGED <<zsets, hashes>>
    /\ ConcFrame

\* faulty variant: the members of the global top k get the entity of the
\* user asked about
ProfileTopHGetOwnEntity(c) ==
    /\ procs[c].pc = "entities"
    /\ LET m    == Head(procs[c].members)
           user == [ID     |-> m.Member,
                    Entity |-> procs[c].entityCmd.val,
                    Score  |-> m.Score]
           p    == [procs[c] EXCEPT !.members = Tail(@), !.seen = @ \cup {DB},
                                    !.TopKGlobal = Append(@, user)]
       IN  procs' = [procs EXCEPT ![c] =
                        IF p.members = <<>> THEN ProfileAfterGlobal(p) ELSE p]
    /\ UNCHANGED <<zsets, hashes>>
    /\ ConcFrame

\* second round trip: one HGet per member of the global top k
ProfileTopHGet(c) ==
    /\ procs[c].pc = "entities"
    /\ LET m    == Head(procs[c].members)
           user == [ID     |-> m.Member,
                    Entity |-> HGet(DB, entitiesKey(config), m.Member).val,
                    Score  |-> m.Score]
           p    == [procs[c] EXCEPT !.members = Tail(@), !.seen = @ \cup {DB},
                                    !.TopKGlobal = Append(@, user)]
       IN  procs' = [procs EXCEPT ![c] =
                        IF p.members = <<>> THEN ProfileAfterGlobal(p) ELSE p]
    /\ UNCHANGED <<zsets, hashes>>
    /\ ConcFrame

\* faulty variant: the user's entity is looked up again for the entity round trip
ProfileEntityRankReread(c) ==
    /\ procs[c].pc = "entityrank"
    /\ LET key == entityKey(config, HGet(DB, entitiesKey(config), procs[c].id).val)
       IN  procs' = [procs EXCEPT ![c] =
                        [@ EXCEPT !.pc = "entityrange", !.seen = @ \cup {DB},
                                  !.sent = Append(@, key),
                                  !.entityRankCmd = ZRevRank(DB, key, procs[c].id)]]
    /\ UNCHANGED <<zsets, hashes>>
    /\ ConcFrame

\* third round trip: ZRevRank and ZRevRangeWithScores on the key of data.Entity
ProfileEntityRank(c) ==
    /\ procs[c].pc = "entityrank"
    /\ LET key == entityKey(config, procs[c].entityCmd.val)
       IN  procs' = [procs EXCEPT ![c] =
                        [@ EXCEPT !.pc = "entityrange", !.seen = @ \cup {DB},
                                  !.sent = Append(@, key),
                                  !.entityRankCmd = ZRevRank(DB, key, procs[c].id)]]
    /\ UNCHANGED <<zsets, hashes>>
    /\ ConcFrame

ProfileEntityRange(c) ==
    /\ procs[c].pc = "entityrange"
    /\ LET key == entityKey(config, procs[c].entityCmd.val)
       IN  procs' = [procs EXCEPT ![c] =
                        Return([@ EXCEPT !.sent = Append(@, key), !.seen = @ \cup {DB},
                                         !.topKEntityCmd =
                                             ZRevRangeWithScores(DB, key, 0, config.K - 1)],
                               "nil")]
    /\ UNCHANGED <<zsets, hashes>>
    /\ ConcFrame

InitProfile ==
    /\ \E cfg \in Configs : config = New(cfg)
    /\ \E n \in MockCounts, seed \in Seeds(config) :
          LET db == Exec([zsets |-> <<>>, hashes |-> <<>>], MockPipe(config, n) \o seed)
          IN  /\ zsets = db.zsets
              /\ hashes = db.hashes
              /\ pre = db
    /\ last = NoCall
    /\ prev = NoCall
    /\ nops = 0
    /\ procs = [c \in Writers \cup {Reader} |-> IF c = Reader THEN ProfileIdle ELSE Idle]

NextProfile ==
    \/ \E c \in Writers, id \in ConcIDs, e \in Entities : UpdateEntityCall(c, id, e)
    \/ \E c \in Writers : UpdateEntityZScore(c)
    \/ \E c \in Writers : UpdateEntityHGet(c)
    \/ \E c \in Writers : PipeExecStep(c)
    \/ \E id \in ConcIDs : ProfileCall(Reader, id)
    \/ ProfileZRevRank(Reader)
    \/ ProfileHGet(Reader)
    \/ ProfileZScore(Reader)
    \/ ProfileZRevRange(Reader)
    \/ ProfileTopHGet(Reader)
    \/ ProfileEntityRank(Reader)
    \/ ProfileEntityRange(Reader)

SpecProfile == InitProfile /\ [][NextProfile]_vars

-----------------------------------------------------------------------------
(* Leaderboards of different namespaces on one Redis server: calls are made *)
(* through the leaderboard `config`, the stores of the other namespaces are *)
(* those of leaderboards that nobody has called yet                         *)

Namespaces == {"chess", "chess:entity", "tetris"}
BoardEntities == {"US", "global"}

BoardConfigs ==
    {[Namespace |-> ns, K |-> 10, FloatScores |-> TRUE] : ns \in Namespaces}

InitBoards ==
    /\ zsets = <<>>
    /\ hashes = <<>>
    /\ \E cfg \in BoardConfigs : config = New(cfg)
    /\ last = NoCall
    /\ prev = NoCall
    /\ pre = [zsets |-> <<>>, hashes |-> <<>>]
    /\ nops = 0
    /\ procs = <<>>

NextBoards ==
    \/ \E id \in UserIDs, e \in BoardEntities \cup {""}, s \in AddScores :
          AddUser([ID |-> id, Entity |-> e, Score |-> s])
    \/ \E id \in UserIDs, e \in BoardEntities \cup {""}, d \in Increments :
          IncrementScore(id, e, d)
    \/ \E id \in UserIDs : RemoveUser(id)
    \/ \E id \in UserIDs, e \in BoardEntities : UpdateEntityByUserID(id, e)

SpecBoards == InitBoards /\ [][NextBoards]_vars

-----------------------------------------------------------------------------
(* Views of the three structures of the leaderboard's namespace *)

Global(db) == Coll(db.zsets, globalKey(config))
Directory(db) == Coll(db.hashes, entitiesKey(config))
Group(db, e) == Coll(db.zsets, entityKey(config, e))

\* id is nowhere: not ranked globally, no Directory entry, in no group store
Nowhere(db, id) ==
    /\ id \notin DOMAIN Global(db)
    /\ id \notin DOMAIN Directory(db)
    /\ \A e \in Entities : id \notin DOMAIN Group(db, e)

Succeeded(call, op) == call.op = op /\ call.err = "nil"

-----------------------------------------------------------------------------
(* Claims, calls made one at a time (Spec) *)

\* C1: after every successful call, an identity whose Directory group G is
\* non-empty has the same score in Global and in Group(G) and is in no other
\* group store.
C1_CrossStructure ==
    last.err = "nil" =>
        \A id \in UserIDs :
            LET g == HGet(DB, entitiesKey(config), id)
            IN  (g.err = "nil" /\ g.val # "") =>
                    /\ ZScore(DB, globalKey(config), id)
                          = ZScore(DB, entityKey(config, g.val), id)
                    /\ \A e \in Entities \ {g.val} : id \notin DOMAIN Group(DB, e)

\* C4: after RemoveUser(id) returned nil, id is absent from Global, from the
\* Directory and from every group store, and GetUserScore(id) fails.
C4_RemovedEverywhere ==
    Succeeded(last, "RemoveUser") =>
        /\ Nowhere(DB, last.id)
        /\ GetUserScore(DB, config, last.id).err = "user not found"

\* C5: after every successful call, X is in the store of group G exactly when
\* the Directory maps X to G and X is in Global.
C5_GroupMembership ==
    last.err = "nil" =>
        \A id \in UserIDs, e \in Entities :
            id \in DOMAIN Group(DB, e)
                <=> /\ HGet(DB, entitiesKey(config), id) = [val |-> e, err |-> "nil"]
                    /\ id \in DOMAIN Global(DB)

C8_GroupMove ==
    (/\ Succeeded(prev, "AddUser")
     /\ Succeeded(last, "UpdateEntityByUserID")
     /\ prev.id = last.id
     /\ prev.entity # last.entity) =>
        LET X  == last.id
            G1 == prev.entity
            G2 == last.entity
            s  == Precision(config, prev.amount)
        IN  /\ GetUserEntity(DB, config, X) = [val |-> G2, err |-> "nil"]
            /\ ZScore(DB, entityKey(config, G2), X) = [val |-> s, err |-> "nil"]
            /\ X \notin DOMAIN Group(DB, G1)
            /\ GetRankEntity(DB, config, X)
                  = [val |-> Cardinality({m \in DOMAIN Group(DB, G2) :
                                 \/ Group(DB, G2)[m] > s
                                 \/ Group(DB, G2)[m] = s /\ LexIndex(m) > LexIndex(X)}),
                     err |-> "nil"]
            /\ GetUserScore(DB, config, X) = [val |-> s, err |-> "nil"]

C8_Witness ==
    /\ Succeeded(prev, "AddUser")
    /\ Succeeded(last, "UpdateEntityByUserID")
    /\ prev.id = last.id
    /\ prev.entity = "US"
    /\ last.entity = "UK"
    /\ last.id \notin DOMAIN Group(DB, "US")
    /\ GetRankEntity(DB, config, last.id).val = 1

\* C9: AddUser with a non-empty id and a score >= 0 succeeds whether or not
\* the id exists, and leaves the Global score at the precision-adjusted
\* score, the Directory at the given group and, for a non-empty group, the
\* score in that group's store at the same value.
C9_AddOverwrites ==
    (last.op = "AddUser" /\ last.id # "" /\ last.amount >= 0) =>
        LET s == Precision(config, last.amount)
        IN  /\ last.err = "nil"
            /\ ZScore(DB, globalKey(config), last.id) = [val |-> s, err |-> "nil"]
            /\ HGet(DB, entitiesKey(config), last.id)
                  = [val |-> last.entity, err |-> "nil"]
            /\ last.entity # "" =>
                  ZScore(DB, entityKey(config, last.entity), last.id)
                      = [val |-> s, err |-> "nil"]

C9_Witness ==
    /\ Succeeded(last, "AddUser")
    /\ last.entity # ""
    /\ ~config.FloatScores
    /\ Precision(config, last.amount) # last.amount
    /\ ZScore(pre, globalKey(config), last.id).err = "nil"
    /\ ZScore(pre, globalKey(config), last.id).val # Precision(config, last.amount)
    /\ HGet(pre, entitiesKey(config), last.id).err = "nil"
    /\ HGet(pre, entitiesKey(config), last.id).val # last.entity
    /\ ZScore(DB, globalKey(config), last.id).val = Precision(config, last.amount)

\* C10: RemoveUser(id) right after a successful RemoveUser(id), or for an id
\* that is nowhere in the three structures, succeeds and changes nothing.
C10_RemoveIdempotent ==
    (/\ last.op = "RemoveUser"
     /\ last.id # ""
     /\ \/ Succeeded(prev, "RemoveUser") /\ prev.id = last.id
        \/ Nowhere(pre, last.id)) =>
        /\ last.err = "nil"
        /\ DB = pre

C10_Witness ==
    /\ Succeeded(prev, "RemoveUser")
    /\ Succeeded(last, "RemoveUser")
    /\ prev.id = last.id
    /\ Global(DB) # <<>>
    /\ DB = pre

\* C11: a successful IncrementScore(X, "", d) on a user whose Directory group
\* G is non-empty keeps X in G: the Directory still maps X to G, X is still in
\* G's store, and X's score there moved together with its Global score.
C11_EmptyEntityKeepsCurrent ==
    (/\ Succeeded(last, "IncrementScore")
     /\ last.entity = ""
     /\ HGet(pre, entitiesKey(config), last.id).err = "nil"
     /\ HGet(pre, entitiesKey(config), last.id).val # "") =>
        LET X == last.id
            G == HGet(pre, entitiesKey(config), X).val
        IN  /\ HGet(DB, entitiesKey(config), X) = [val |-> G, err |-> "nil"]
            /\ X \in DOMAIN Group(DB, G)
            /\ ZScore(DB, entityKey(config, G), X)
                  = [val |-> ZScore(pre, entityKey(config, G), X).val
                                + Precision(config, last.amount),
                     err |-> "nil"]
            /\ ZScore(DB, entityKey(config, G), X) = ZScore(DB, globalKey(config), X)

\* the arguments for which a mutation is documented to fail on validation
InvalidInput(call) ==
    \/ call.op = "AddUser" /\ (call.id = "" \/ call.amount < 0)
    \/ call.op = "IncrementScore" /\ (call.id = "" \/ call.amount = 0)
    \/ call.op = "RemoveUser" /\ call.id = ""
    \/ call.op = "UpdateEntityByUserID" /\ (call.id = "" \/ call.entity = "")

\* C12: a mutation called with invalid arguments (AddUser: empty id or
\* negative score; IncrementScore: empty id or zero increment; RemoveUser:
\* empty id; UpdateEntityByUserID: empty id or empty new group) returns an
\* error and has written nothing: every key of the server is as before.
C12_RejectedBeforeWrite ==
    InvalidInput(last) =>
        /\ last.err \in {"invalid user ID or score",
                          "invalid user ID or score increment",
                          "invalid user ID", "invalid new entity"}
        /\ DB = pre

C12_Witness ==
    /\ last.op = "AddUser"
    /\ last.id # ""
    /\ last.amount < 0
    /\ last.err = "invalid user ID or score"
    /\ Global(pre) # <<>>
    /\ DB = pre

\* C13: UpdateEntityByUserID(X, G) with valid arguments on a user that has no
\* Global score fails with "user not found" and writes nothing: the Directory
\* and every group store (and Global) are as before.
C13_UpdateMissingUser ==
    (/\ last.op = "UpdateEntityByUserID"
     /\ ~InvalidInput(last)
     /\ last.id \notin DOMAIN Global(pre)) =>
        /\ last.err = "user not found"
        /\ Directory(DB) = Directory(pre)
        /\ \A e \in Entities : Group(DB, e) = Group(pre, e)
        /\ DB = pre

C13_Witness ==
    /\ last.op = "UpdateEntityByUserID"
    /\ last.err = "user not found"
    /\ Succeeded(prev, "RemoveUser")
    /\ prev.id = last.id
    /\ Directory(pre) # <<>>
    /\ DB = pre

\* C14, as stated: a user is in Global exactly when an AddUser for it has
\* succeeded and no RemoveUser since: only a successful AddUser makes it
\* appear, only a successful RemoveUser makes it disappear, and every other
\* call (IncrementScore, UpdateEntityByUserID, a rejected call) leaves its
\* presence in Global as it was.
C14_GlobalByAddRemoveOnly ==
    \A id \in UserIDs :
        id \in DOMAIN Global(DB)
            <=> IF Succeeded(last, "AddUser") /\ last.id = id THEN TRUE
                ELSE IF Succeeded(last, "RemoveUser") /\ last.id = id THEN FALSE
                ELSE id \in DOMAIN Global(pre)

\* C14, amended: a successful IncrementScore also makes the user appear (a
\* missing score counts as zero); UpdateEntityByUserID and rejected calls
\* never change who is in Global.
C14_GlobalByAddIncrementRemove ==
    \A id \in UserIDs :
        id \in DOMAIN Global(DB)
            <=> IF /\ last.id = id
                   /\ Succeeded(last, "AddUser") \/ Succeeded(last, "IncrementScore")
                THEN TRUE
                ELSE IF Succeeded(last, "RemoveUser") /\ last.id = id THEN FALSE
                ELSE id \in DOMAIN Global(pre)

C14_Witness ==
    /\ Succeeded(last, "IncrementScore")
    /\ Succeeded(prev, "RemoveUser")
    /\ prev.id = last.id
    /\ last.id \notin DOMAIN Global(pre)
    /\ last.id \in DOMAIN Global(DB)

\* C22: no score held for a user is negative: every entry of Global and of
\* every group store is >= 0 in every state the calls can reach.
C22_ScoresNonNegative ==
    \A id \in UserIDs :
        /\ ZScore(DB, globalKey(config), id).val >= 0
        /\ \A e \in Entities : ZScore(DB, entityKey(config, e), id).val >= 0

C24_SameGroupNoChange ==
    (/\ last.op = "UpdateEntityByUserID"
     /\ ~InvalidInput(last)
     /\ HGet(pre, entitiesKey(config), last.id) = [val |-> last.entity, err |-> "nil"]) =>
        /\ last.err = "nil"
        /\ Directory(DB) = Directory(pre)
        /\ Global(DB) = Global(pre)
        /\ \A e \in Entities : Group(DB, e) = Group(pre, e)

\* C28: in every state reached by calls made one at a time, the users with
\* an entry in the user:entities hash are exactly the members of the global
\* sorted set.
C28_DirectoryMatchesGlobal == DOMAIN Directory(DB) = DOMAIN Global(DB)

\* a user was removed while an ungrouped user stays ranked
C28_Witness ==
    /\ Succeeded(last, "RemoveUser")
    /\ last.id \in DOMAIN Global(pre)
    /\ last.id \notin DOMAIN Global(DB)
    /\ \E id \in DOMAIN Global(DB) : Directory(DB)[id] = ""

\* C30: a call for user X (AddUser, IncrementScore, UpdateEntityByUserID,
\* RemoveUser) leaves every other user Y as it was: Y's membership and score
\* in the global sorted set and in every entity set, and Y's Directory entry.
C30_OthersUntouched ==
    \A y \in UserIDs \ {last.id} :
        LET entry(f) == IF y \in DOMAIN f THEN <<f[y]>> ELSE <<>>
        IN  /\ entry(Global(DB)) = entry(Global(pre))
            /\ entry(Directory(DB)) = entry(Directory(pre))
            /\ \A e \in Entities : entry(Group(DB, e)) = entry(Group(pre, e))

\* a user was removed from an entity set that holds another user
C30_Witness ==
    /\ Succeeded(last, "RemoveUser")
    /\ \E e \in Entities :
          /\ last.id \in DOMAIN Group(pre, e)
          /\ last.id \notin DOMAIN Group(DB, e)
          /\ \E y \in UserIDs \ {last.id} : y \in DOMAIN Group(DB, e)

\* C31: with FloatScores = false, every IncrementScore that returns nil
\* changes the user's score in the global sorted set by a whole number other
\* than zero; an increment that the integer policy turns into 0 (0.5, -0.5)
\* returns the error of a zero increment and writes nothing: it creates no
\* member for a user that was absent and leaves the Directory as it was.
C31_IntegerPolicyRejectsZero ==
    (~config.FloatScores /\ last.op = "IncrementScore") =>
        LET before == ZScore(pre, globalKey(config), last.id).val
            after  == ZScore(DB, globalKey(config), last.id).val
        IN  /\ last.err = "nil" =>
                  /\ after - before # 0
                  /\ (after - before) % Unit = 0
            /\ TruncToInt(last.amount) = 0 =>
                  /\ last.err = "invalid user ID or score increment"
                  /\ DB = pre

-----------------------------------------------------------------------------
(* Claims, the increment and decrement routes (SpecAdjust) *)

\* C27: when a user that is in Global with Directory entity g has had a
\* score increment d applied with entity g, the server's decrement of the
\* same amount d with entity g brings Global, the Directory and every
\* entity set back to what they were before the increment.
C27_IncrementThenDecrement ==
    (/\ Succeeded(last, "IncrementScore")
     /\ last.id \in DOMAIN Global(pre)
     /\ HGet(pre, entitiesKey(config), last.id) = [val |-> last.entity, err |-> "nil"]) =>
        LET back == DecrementScoreOn(DB, config, last.id, last.entity, last.amount)
        IN  /\ Global(back) = Global(pre)
            /\ Directory(back) = Directory(pre)
            /\ \A e \in Entities : Group(back, e) = Group(pre, e)

-----------------------------------------------------------------------------
(* Claims, concurrent callers (SpecConc, SpecIncr) *)

AllReturned == \A c \in DOMAIN procs : procs[c].pc = "done" /\ procs[c].err = "nil"

\* C2: a mutation's writes take effect as one indivisible step: while one
\* call is writing and no other caller has started, what is stored, and so
\* what a concurrent reader observes, is either the contents from before the
\* call or the contents with all of its writes applied.
C2_BatchIndivisible ==
    \A c \in DOMAIN procs :
        (/\ procs[c].pc = "write"
         /\ \A o \in DOMAIN procs \ {c} : procs[o].pc = "idle") =>
            \/ DB = pre
            \/ DB = Exec(pre, procs[c].batch)

\* C3, for the case it names: callers that concurrently run
\* UpdateEntityByUserID and IncrementScore on one user, all naming the group
\* the user is in already.  Run one after the other, in any order, these calls
\* keep the user's Group score equal to its Global score; the claim is that
\* every interleaving does.
C3_UpdateIncrementConsistent ==
    (/\ AllReturned
     /\ \E c \in DOMAIN procs : procs[c].op = "UpdateEntityByUserID"
     /\ \A c \in DOMAIN procs : procs[c].op \in {"UpdateEntityByUserID", "IncrementScore"}
     /\ \E e \in Entities :
          /\ \A c \in DOMAIN procs : procs[c].entity = e
          /\ \A id \in ConcIDs : HGet(pre, entitiesKey(config), id).val = e) =>
        \A id \in ConcIDs :
            LET g == HGet(DB, entitiesKey(config), id)
            IN  (g.err = "nil" /\ g.val # "") =>
                    ZScore(DB, entityKey(config, g.val), id)
                        = ZScore(DB, globalKey(config), id)

RECURSIVE SumIncrements(_)
SumIncrements(cs) ==
    IF cs = {} THEN 0
    ELSE LET c == CHOOSE x \in cs : TRUE
         IN  Precision(config, procs[c].amount) + SumIncrements(cs \ {c})

------------------------------------------------------------------------\* C29: when a RemoveUser call and an UpdateEntityByUserID call for the same
\* user have run concurrently and both have returned without error, a user
\* that is not in the global sorted set is in no entity set and has no
\* Directory entry either.
C29_RemoveDuringUpdate ==
    \A id \in ConcIDs :
        (/\ AllReturned
         /\ \E c \in DOMAIN procs : procs[c].op = "RemoveUser" /\ procs[c].id = id
         /\ \E c \in DOMAIN procs : procs[c].op = "UpdateEntityByUserID" /\ procs[c].id = id
         /\ id \notin DOMAIN Global(DB)) =>
            Nowhere(DB, id)

-----
(* Claims, queries on a populated leaderboard (SpecQuery) *)

QueryIDs == UserIDs \cup MockIDs \cup {"ghost"}

DistinctScores(zs) == \A a, b \in DOMAIN zs : a # b => zs[a] # zs[b]

HigherScores(zs, id) == Cardinality({m \in DOMAIN zs : zs[m] > zs[id]})

\* C15: GetRankGlobal(id) is -1, without error, for an id that is not in
\* Global; when the scores in Global are pairwise distinct it is the number
\* of users with a strictly greater score, so rank 0 is the maximum and a
\* greater rank means a strictly smaller score.  The same holds for
\* GetRankEntity inside the store of the user's group.
C15_RankCountsHigher ==
    /\ \A id \in QueryIDs \ DOMAIN Global(DB) :
          GetRankGlobal(DB, config, id) = [val |-> -1, err |-> "nil"]
    /\ DistinctScores(Global(DB)) =>
          LET zs   == Global(DB)
              rank == [m \in DOMAIN zs |-> GetRankGlobal(DB, config, m)]
          IN  \A id \in DOMAIN zs :
                  /\ rank[id] = [val |-> HigherScores(zs, id), err |-> "nil"]
                  /\ rank[id].val = 0 <=> \A m \in DOMAIN zs : zs[m] <= zs[id]
                  /\ \A m \in DOMAIN zs :
                        rank[m].val > rank[id].val => zs[m] < zs[id]
    /\ \A e \in Entities :
          DistinctScores(Group(DB, e)) =>
              \A id \in DOMAIN Group(DB, e) :
                  HGet(DB, entitiesKey(config), id).val = e =>
                      GetRankEntity(DB, config, id)
                          = [val |-> HigherScores(Group(DB, e), id), err |-> "nil"]

C15_Witness ==
    /\ Succeeded(last, "AddUser")
    /\ DistinctScores(Global(DB))
    /\ GetRankGlobal(DB, config, last.id).val > 1
    /\ GetRankGlobal(DB, config, last.id).val < Cardinality(DOMAIN Global(DB)) - 2
    /\ GetRankEntity(DB, config, last.id).val > 1
    /\ GetRankGlobal(DB, config, "ghost").val = -1

Min(a, b) == IF a <= b THEN a ELSE b

\* users is the first k of the descending order of the sorted set zs: as many
\* entries as zs has members, up to k, each a member with its score, no
\* member twice, scores non-increasing, and no member left out that has a
\* greater score than one listed
IsTopK(users, zs, k) ==
    /\ Len(users) = Min(k, Cardinality(DOMAIN zs))
    /\ Len(users) <= k
    /\ \A i \in 1..Len(users) :
          /\ users[i].ID \in DOMAIN zs
          /\ users[i].Score = zs[users[i].ID]
    /\ \A i, j \in 1..Len(users) : i < j =>
          /\ users[i].ID # users[j].ID
          /\ users[i].Score >= users[j].Score
    /\ \A m \in DOMAIN zs \ {users[i].ID : i \in 1..Len(users)} :
          \A i \in 1..Len(users) : zs[m] <= users[i].Score

\* C16: on a non-empty Global, GetTopKGlobal succeeds with exactly min(K, N)
\* users, the N users of Global taken in non-increasing score order, never
\* more than K; likewise GetTopKEntity(g) on a non-empty group store.  K is
\* the configured K, or 10 when the configured K is <= 0.
C16_TopKSizeAndOrder ==
    \A cfg \in QueryConfigs :
        New(cfg) = config =>
            LET K == IF cfg.K <= 0 THEN 10 ELSE cfg.K
                global == GetTopKGlobal(DB, config)
            IN  /\ Global(DB) # <<>> =>
                      /\ global.err = "nil"
                      /\ IsTopK(global.val, Global(DB), K)
                /\ \A e \in Entities :
                      Group(DB, e) # <<>> =>
                          LET group == GetTopKEntity(DB, config, e)
                          IN  /\ group.err = "nil"
                              /\ IsTopK(group.val, Group(DB, e), K)

C16_Witness ==
    /\ last.err = "nil"
    /\ nops > 0
    /\ \E cfg \in QueryConfigs : cfg.K <= 0 /\ New(cfg) = config
    /\ Cardinality(DOMAIN Global(DB)) > 10
    /\ Len(GetTopKGlobal(DB, config).val) = 10
    /\ Cardinality(DOMAIN Group(DB, "US")) < 10
    /\ Len(GetTopKEntity(DB, config, "US").val) = Cardinality(DOMAIN Group(DB, "US"))

\* a group tag that no call ever names: its store never existed
NeverUsed == "FR"

\* the users of group e: those in Global that the Directory maps to e
Members(db, e) ==
    {id \in DOMAIN Global(db) : HGet(db, entitiesKey(config), id).val = e}

\* C17: GetTopKGlobal fails with "no users in global leaderboard" exactly
\* when Global has no entries, and GetTopKEntity(g) fails with "no users in
\* entity" exactly when group g has no members: g was never used, or its
\* members were all removed or moved to another group.  A call that succeeds
\* never returns an empty list.
C17_EmptyScopeIsError ==
    /\ GetTopKGlobal(DB, config).err
          = IF Global(DB) = <<>> THEN "no users in global leaderboard" ELSE "nil"
    /\ GetTopKGlobal(DB, config).err = "nil" => Len(GetTopKGlobal(DB, config).val) > 0
    /\ \A e \in Entities \cup {NeverUsed} :
          /\ GetTopKEntity(DB, config, e).err
                = IF Members(DB, e) = {} THEN "no users in entity" ELSE "nil"
          /\ GetTopKEntity(DB, config, e).err = "nil"
                => Len(GetTopKEntity(DB, config, e).val) > 0

\* C18, as stated: for an id that is in none of the structures (never added),
\* GetUserLeaderboardData succeeds with score 0, global rank -1, entity "",
\* entity rank -1 and both top-k lists empty, whatever the leaderboard holds.
C18_UnrankedProfileListsEmpty ==
    \A id \in UserIDs \cup {"ghost"} :
        Nowhere(DB, id) =>
            LET r == GetUserLeaderboardData(DB, config, id)
            IN  /\ r.err = "nil"
                /\ r.val.Score = 0
                /\ r.val.GlobalRank = -1
                /\ r.val.Entity = ""
                /\ r.val.EntityRank = -1
                /\ r.val.TopKGlobal = <<>>
                /\ r.val.TopKEntity = <<>>

\* C18, amended: the call succeeds with score 0, global rank -1, entity "",
\* entity rank -1 and an empty TopKEntity; TopKGlobal is the top k of Global
\* as for any user, so it is empty only when Global is empty.
C18_UnrankedProfile ==
    \A id \in UserIDs \cup {"ghost"} :
        Nowhere(DB, id) =>
            LET r == GetUserLeaderboardData(DB, config, id)
            IN  /\ r.err = "nil"
                /\ r.val.UserID = id
                /\ r.val.Score = 0
                /\ r.val.GlobalRank = -1
                /\ r.val.Entity = ""
                /\ r.val.EntityRank = -1
                /\ IsTopK(r.val.TopKGlobal, Global(DB), config.K)
                /\ r.val.TopKGlobal = <<>> <=> Global(DB) = <<>>
                /\ r.val.TopKEntity = <<>>

C18_Witness ==
    /\ Succeeded(last, "AddUser")
    /\ Nowhere(DB, "ghost")
    /\ Nowhere(DB, "u2")
    /\ GetUserLeaderboardData(DB, config, "ghost").val.GlobalRank = -1
    /\ Len(GetUserLeaderboardData(DB, config, "ghost").val.TopKGlobal) = config.K
    /\ GetUserLeaderboardData(DB, config, "ghost").val.TopKGlobal[1].ID = last.id

-----------------------------------------------------------------------------
(* Claims, queries while calls are in flight (SpecRanked) *)

\* C20: GetRankEntity(id) never fails.  It is -1 when id has no Directory
\* entry, when the entry is the empty group, or when id is not in the store
\* of the group the Directory names; otherwise it is id's rank in that store:
\* at least the number of members with a greater score, fewer than the number
\* with a score at least as great, and exactly the former when the scores of
\* the store are pairwise distinct.
C20_RankInDirectoryGroup ==
    \A id \in ConcIDs \cup MockIDs \cup {"ghost"} :
        LET r == GetRankEntity(DB, config, id)
            d == Directory(DB)
        IN  /\ r.err = "nil"
            /\ IF id \notin DOMAIN d THEN r.val = -1
               ELSE IF d[id] = "" THEN r.val = -1
               ELSE IF id \notin DOMAIN Group(DB, d[id]) THEN r.val = -1
               ELSE LET zs == Group(DB, d[id])
                    IN  /\ r.val >= HigherScores(zs, id)
                        /\ r.val < Cardinality({m \in DOMAIN zs : zs[m] >= zs[id]})
                        /\ DistinctScores(zs) => r.val = HigherScores(zs, id)

C20_Witness ==
    /\ \E c \in Clients : procs[c].pc = "write"
    /\ "u1" \in DOMAIN Directory(DB)
    /\ Directory(DB)["u1"] = "US"
    /\ "u1" \notin DOMAIN Group(DB, "US")
    /\ GetRankEntity(DB, config, "u1").val = -1
    /\ DistinctScores(Group(DB, "US"))
    /\ GetRankEntity(DB, config, "user0").val > 1
    /\ GetRankEntity(DB, config, "ghost").val = -1

\* C21: GetUserScore(id) returns id's score in Global when id is in Global
\* and fails with "user not found" exactly when it is not; GetUserEntity(id)
\* never fails and returns the group the Directory holds for id, the empty
\* string when there is no entry or the entry is the empty group.
C21_ScoreAndEntityQueries ==
    \A id \in ConcIDs \cup MockIDs \cup {"ghost"} :
        /\ GetUserScore(DB, config, id)
              = IF id \in DOMAIN Global(DB)
                THEN [val |-> Global(DB)[id], err |-> "nil"]
                ELSE [val |-> 0, err |-> "user not found"]
        /\ GetUserEntity(DB, config, id)
              = IF id \in DOMAIN Directory(DB)
                THEN [val |-> Directory(DB)[id], err |-> "nil"]
                ELSE [val |-> "", err |-> "nil"]

C21_Witness ==
    /\ AllReturned
    /\ \E c \in Clients : procs[c].op = "IncrementScore"
    /\ GetUserScore(DB, config, "u1").err = "nil"
    /\ GetUserScore(DB, config, "u1").val < 0
    /\ GetUserEntity(DB, config, "u1") = [val |-> "", err |-> "nil"]
    /\ "u1" \in DOMAIN Directory(DB)
    /\ GetUserEntity(DB, config, "user1").val = "UK"
    /\ GetUserScore(DB, config, "ghost").err = "user not found"
    /\ GetUserEntity(DB, config, "ghost") = [val |-> "", err |-> "nil"]

-----------------------------------------------------------------------------------------------------------------------------------------------------
(* Claims, a profile read while entity changes are in flight (SpecProfile) *)

C26_ProfileAgreesWithQueries ==
    LET p    == procs[Reader]
        data == ProfileData(p)
        sc   == GetUserScore(DB, config, p.id)
        tg   == GetTopKGlobal(DB, config)
        te   == GetTopKEntity(DB, config, data.Entity)
    IN  (p.pc = "done" /\ p.seen = {DB}) =>
          /\ data.Score = IF sc.err = "nil" THEN sc.val ELSE 0
          /\ data.GlobalRank = GetRankGlobal(DB, config, p.id).val
          /\ data.Entity = GetUserEntity(DB, config, p.id).val
          /\ data.EntityRank = GetRankEntity(DB, config, p.id).val
          /\ data.TopKGlobal = IF tg.err = "nil" THEN tg.val ELSE <<>>
          /\ data.TopKEntity = IF data.Entity = "" \/ te.err # "nil" THEN <<>> ELSE te.val
          /\ data = GetUserLeaderboardData(DB, config, p.id).val

\* a profile of a ranked user of an entity, read after an entity change
\* had completed
C26_Witness ==
    LET p    == procs[Reader]
        data == ProfileData(p)
    IN  /\ p.pc = "done"
        /\ p.seen = {DB}
        /\ \A c \in Writers : procs[c].pc = "done" /\ procs[c].err = "nil"
        /\ DB # pre
        /\ data.Entity # ""
        /\ data.EntityRank >= 0
        /\ Len(data.TopKGlobal) = 2
        /\ data.TopKGlobal[1].Entity # data.TopKGlobal[2].Entity
        /\ data.TopKEntity # <<>>

-----
(* Claims, several namespaces on one server (SpecBoards) *)

\* C19: whatever is called through the leaderboard of one namespace, the
\* stores of every other namespace (its global set, its Directory and its
\* set of every group tag) stay as they were, here empty, so what that other
\* leaderboard reads is unaffected; for every pair of distinct namespaces.
C19_NamespaceIsolation ==
    \A ns \in Namespaces \ {config.Namespace} :
        LET other == [config EXCEPT !.Namespace = ns]
        IN  /\ Coll(zsets, globalKey(other)) = <<>>
            /\ Coll(hashes, entitiesKey(other)) = <<>>
            /\ \A e \in BoardEntities : Coll(zsets, entityKey(other, e)) = <<>>
            /\ GetTopKGlobal(DB, other).err = "no users in global leaderboard"

====
